---------------------------- MODULE Spec2Model ----------------------------
(***************************************************************************)
(* A model of the quantum fraud-detection pipeline:                        *)
(*   - QSVM (src/model/qsvm_classifier.py): fit / predict / predict_proba  *)
(*     / score on one classifier object;                                   *)
(*   - QuantumFeatureSelector (same file): the greedy forward search and   *)
(*     the selector's fit / predict / predict_proba;                       *)
(*   - QCentroidChallengeAPI / QCentroidClient                             *)
(*     (src/model/qcentroid_config.py): submit, poll, wait, execute.       *)
(*   - QCentroidConfig and the global client of get_qcentroid_client       *)
(*     (same file), in a process environment that may change;              *)
(*   - the solver pipeline (src/quantum_solver.py) under its entry point   *)
(*     (src/main.py);                                                      *)
(*   - the quick test script (src/test_quantum_solver.py).                 *)
(* The external libraries (the quantum kernel, the SVC solver, the HTTP    *)
(* transport) are modelled by their outcomes: a call returns or raises,    *)
(* chosen nondeterministically.                                            *)
(***************************************************************************)
EXTENDS Integers, Sequences, FiniteSets, TLC

(***************************************************************************)
(* Bounds of the model.                                                    *)
(***************************************************************************)
\* samples are drawn from 1..MaxSamples; a data set holds 1..MaxSamples rows
MaxSamples == 2
\* a selector is built for 1..MaxN features
MaxN == 3
\* validation accuracies are the levels 0..MaxScore (0 is accuracy 0.0)
MaxScore == 3
\* the longest feature list passed to QuantumFeatureSelector.fit
MaxFitArg == 1
\* a direct call of wait_for_job passes max_wait_time in -1..MaxWaitArg
MaxWaitArg == 3
\* ... and poll_interval in 1..MaxPollArg
MaxPollArg == 2
\* a status request takes 0..MaxLatency seconds
MaxLatency == 1
\* time.sleep(t) returns after t..t+MaxOversleep seconds
MaxOversleep == 1

\* get_qcentroid_client builds at most MaxBuilt clients
MaxBuilt == 2

\* the files of data/processed hold 1..MaxDiskRows samples in each set
MaxDiskRows == 2
\* ... of 1..MaxDiskCols features
MaxDiskCols == 2

(***************************************************************************)
(* Program constants.                                                      *)
(***************************************************************************)
\* "min(n_features, 8)  # NISQ constraint"
NISQ_LIMIT == 8
\* wait_for_job(self, job_id, max_wait_time: int = 300, ...
DefaultMaxWait == 300
\* ... poll_interval: int = 5)
DefaultPollInterval == 5

(***************************************************************************)
(* Python values.                                                          *)
(***************************************************************************)
\* Python's None in a field that otherwise holds a data set (a non-empty
\* sequence of samples)
NoData == << >>

\* every sequence over S of length lo..hi
SeqsOf(S, lo, hi) == UNION { [1..k -> S] : k \in lo..hi }

\* the arrays a caller can pass: non-empty sequences of samples
DataSets == SeqsOf(1..MaxSamples, 1, MaxSamples)

\* the shape of "no kernel matrix was computed"
NoKernel == << 0, 0 >>

\* Python's None in an integer field (a feature index, a count)
NoneInt == -1

\* Python's None in a field that otherwise holds a list of feature indices
\* (the empty list is a value of its own)
NoneList == << NoneInt >>

Min(a, b) == IF a < b THEN a ELSE b

\* faulty variant: the feature is not removed from the list
remove_nothing(s, x) == s

\* list.remove(x): the list without its first occurrence of x
RECURSIVE Remove(_, _)
Remove(s, x) ==
    IF s = << >> THEN << >>
    ELSE IF Head(s) = x THEN Tail(s)
    ELSE << Head(s) >> \o Remove(Tail(s), x)

\* list(range(n))
RECURSIVE Range(_)
Range(n) == IF n <= 0 THEN << >> ELSE Append(Range(n - 1), n - 1)

Elems(s) == { s[j] : j \in 1..Len(s) }

Scores == 0..MaxScore

VARIABLES
    \* ---- QSVM object -----------------------------------------------------
    is_trained,     \* QSVM.is_trained
    X_train,        \* QSVM.X_train (NoData for None)
    svm_fitted,     \* the SVC: the training set whose Gram matrix its last
                    \* successful fit() was given (NoData: never fitted)
    q_last          \* the last QSVM call: [op, out, K] with K the shape of
                    \* the kernel matrix the call computed (NoKernel: none)

VARIABLES
    \* ---- QuantumFeatureSelector object ----------------------------------
    n_features,         \* self.n_features
    max_features,       \* self.max_features
    max_features_arg,   \* the max_features argument the constructor was
                        \* given (NoneInt: not given)
    selected_features,  \* self.selected_features (NoneList for None)
    sel_qsvm,           \* self.qsvm: "None", or the state of the QSVM it
                        \* holds: "untrained" / "trained"
    sel_fitted,         \* has QuantumFeatureSelector.fit ever returned?
    s_last,             \* the last selector call: [op, out, arg, trains,
                        \* value]
    \* ---- the frame of select_features_greedy ----------------------------
    g_pc,               \* "idle", "for_i", "for_feature", "return"
    selected,           \* selected
    remaining,          \* remaining
    best_score,         \* best_score
    g_i,                \* i of "for i in range(self.max_features)"
    best_feature,       \* best_feature (NoneInt for None)
    current_best_score, \* current_best_score
    cursor,             \* position of "for feature in remaining"
    tried,              \* the scores of this round's trials, in trial order
    accepted,           \* the score each selected feature was accepted with
    trained             \* QSVMs trained so far by this call

VARIABLES
    \* ---- QCentroidChallengeAPI.wait_for_job -----------------------------
    c_pc,           \* "idle", "loop" (at the while condition), "examine"
                    \* (a status response is in hand)
    c_caller,       \* the call in progress or last made: "wait_for_job",
                    \* "execute_circuit"
    w_job_id,       \* job_id
    max_wait_time,  \* max_wait_time
    poll_interval,  \* poll_interval
    elapsed,        \* time.time() - start_time, in seconds
    status,         \* status, the response in hand (NoDict: none)
    polls,          \* status requests issued by this wait
    first_final,    \* seq of the first response of this wait that carried
                    \* one of the six final statuses (0: none yet)
    polled_late,    \* was a status request issued at or after the deadline?
    w_result,       \* what wait_for_job returned (NoDict: nothing yet)
    \* ---- QCentroidClient.execute_circuit --------------------------------
    submits,        \* jobs submitted by the last execute_circuit call
    job_result,     \* job_result, the response to the submission
    c_last          \* the last client call: [op, out, value]

VARIABLES
    \* ---- the environment and the module qcentroid_config ----------------
    env_api_key,        \* QCENTROID_API_KEY (NoEnv: not set)
    env_workspace_id,   \* QCENTROID_WORKSPACE_ID
    env_max_qubits,     \* QCENTROID_MAX_QUBITS
    env_shots,          \* QCENTROID_SHOTS
    config,             \* a QCentroidConfig object a caller built and keeps
                        \* (NoConfig: none)
    qcentroid_client,   \* the global _qcentroid_client: 0 for None, else
                        \* the number of the instance it holds
    global_built,       \* instances get_qcentroid_client has built
    k_last              \* the last call into the module, see call_record

kvars == << env_api_key, env_workspace_id, env_max_qubits, env_shots, config,
            qcentroid_client, global_built, k_last >>

VARIABLES
    \* ---- src/main.py and quantum_solver.main ----------------------------
    files,              \* the files of data/processed that exist
    corrupt,            \* those of them np.load cannot read
    disk_rows,          \* the samples the files hold, in each set
    disk_cols,          \* the features the files hold
    e_pc,               \* main.py: "start", "main" (inside the try),
                        \* "exited"
    exit_status,        \* the status the process exited with (NoneInt:
                        \* still running)
    escaped,            \* the exception that left main.py uncaught
                        \* ("none": none)
    m_pc,               \* the step main is at: "idle", a step of Steps,
                        \* "done"
    m_steps,            \* the steps main has begun, in order
    main_out,           \* "none" (not called), "running", "returned", or
                        \* the exception main raised
    data,               \* X_train, y_train, X_test, y_test of line 339
    X_q_cols,           \* the features of X_train_q (NoneInt: unassigned)
    sampled_rows,       \* len(X_train_sampled) (NoneInt: unassigned)
    quantum_available,  \* "unset", "True", "False"
    kernel_backend,     \* the backend of the QSVM's kernel computer
                        \* ("none": no QSVM yet)
    jobs_submitted,     \* submit_quantum_job calls made by this process
    quantum_model,      \* "None", "trained"
    results,            \* "None", "computed"
    written             \* the result files written so far, in order

mvars == << files, corrupt, disk_rows, disk_cols, e_pc, exit_status, escaped,
            m_pc, m_steps, main_out, data, X_q_cols, sampled_rows,
            quantum_available, kernel_backend, jobs_submitted, quantum_model,
            results, written >>

VARIABLES
    \* ---- src/test_quantum_solver.py -------------------------------------
    t_pc,           \* 1..5: the core check to run next; 6: the optional
                    \* check; 7: the summary; 8: the script has ended
    t_ran,          \* the checks run so far, in order
    t_passed,       \* the checks that passed
    t_qsvm,         \* qsvm of check 5: its n_features and C (NoQSVM: none)
    t_printed,      \* was "ALL CORE TESTS PASSED" printed?
    t_exit,         \* the exit status (NoneInt: still running)
    t_escaped       \* the exception no handler caught ("none": none)

tvars == << t_pc, t_ran, t_passed, t_qsvm, t_printed, t_exit, t_escaped >>

cvars == << c_pc, c_caller, w_job_id, max_wait_time, poll_interval, elapsed,
            status, polls, first_final, polled_late, w_result, submits,
            job_result, c_last >>

qvars == << is_trained, X_train, svm_fitted, q_last >>

selvars == << n_features, max_features, max_features_arg, selected_features,
              sel_qsvm, sel_fitted, s_last >>

gvars == << g_pc, selected, remaining, best_score, g_i, best_feature,
            current_best_score, cursor, tried, accepted, trained >>

vars == << qvars, selvars, gvars, cvars, kvars, mvars, tvars >>

(***************************************************************************)
(* QuantumKernelComputer.compute_kernel_matrix: the shape of the matrix    *)
(* quantum_kernel.evaluate(X1, X2) returns, X2 defaulting to X1.           *)
(***************************************************************************)
compute_kernel_matrix(X1, X2) ==
    LET Y == IF X2 = NoData THEN X1 ELSE X2
    IN  << Len(X1), Len(Y) >>

(***************************************************************************)
(* QSVM.__init__: untrained, no training data, a fresh SVC.                *)
(***************************************************************************)
QSVM_init ==
    /\ is_trained = FALSE
    /\ X_train = NoData
    /\ svm_fitted = NoData
    /\ q_last = [op |-> "init", out |-> "returned", K |-> NoKernel]

(***************************************************************************)
(* QSVM.fit.  The kernel evaluation and the SVC's fit may each raise; the  *)
(* two attributes are assigned only after both returned.                   *)
(***************************************************************************)
\* faulty variant: the training data is stored before the kernel is computed
fit_stores_early(kernel_ok, svm_ok) == TRUE

\* does fit reach the assignments of X_train and is_trained (lines 195-197)?
fit_stores(kernel_ok, svm_ok) == kernel_ok /\ svm_ok

QSVM_fit ==
    \E X \in DataSets, kernel_ok \in BOOLEAN, svm_ok \in BOOLEAN :
        LET K == IF kernel_ok THEN compute_kernel_matrix(X, NoData)
                 ELSE NoKernel
            fitted == kernel_ok /\ svm_ok
        IN  /\ svm_fitted' = IF fitted THEN X ELSE svm_fitted
            /\ X_train' = IF fit_stores(kernel_ok, svm_ok) THEN X ELSE X_train
            /\ is_trained' = IF fit_stores(kernel_ok, svm_ok) THEN TRUE
                             ELSE is_trained
            /\ q_last' = [op |-> "fit",
                          out |-> IF fitted THEN "returned" ELSE "raised",
                          K |-> K]

(***************************************************************************)
(* QSVM.predict / predict_proba: the guard, the test-by-train kernel       *)
(* matrix, then the SVC, which rejects a matrix whose column count is not  *)
(* the size of the set it was fitted on.                                   *)
(***************************************************************************)
\* faulty variant: the guard is missing
no_guard == FALSE

\* "if not self.is_trained: raise ValueError(...)"
must_be_trained == ~ is_trained

\* the outcome record of predicting on X_test
predict_outcome(name, X_test, kernel_ok, svc_ok) ==
    IF must_be_trained
    THEN [op |-> name, out |-> "ValueError: Model must be trained before prediction",
          K |-> NoKernel]
    ELSE IF ~ kernel_ok
    THEN [op |-> name, out |-> "raised", K |-> NoKernel]
    ELSE LET K == compute_kernel_matrix(X_test, X_train)
         IN  [op |-> name,
              out |-> IF svc_ok /\ svm_fitted # NoData /\ K[2] = Len(svm_fitted)
                      THEN "returned" ELSE "raised",
              K |-> K]

QSVM_predict ==
    \E X_test \in DataSets, kernel_ok \in BOOLEAN, svc_ok \in BOOLEAN :
        /\ q_last' = predict_outcome("predict", X_test, kernel_ok, svc_ok)
        /\ UNCHANGED << is_trained, X_train, svm_fitted >>

QSVM_predict_proba ==
    \E X_test \in DataSets, kernel_ok \in BOOLEAN, svc_ok \in BOOLEAN :
        /\ q_last' = predict_outcome("predict_proba", X_test, kernel_ok, svc_ok)
        /\ UNCHANGED << is_trained, X_train, svm_fitted >>

(***************************************************************************)
(* QSVM.score: predict, then accuracy_score on the predictions.            *)
(***************************************************************************)
QSVM_score ==
    \E X_test \in DataSets, kernel_ok \in BOOLEAN, svc_ok \in BOOLEAN :
        /\ q_last' = predict_outcome("score", X_test, kernel_ok, svc_ok)
        /\ UNCHANGED << is_trained, X_train, svm_fitted >>

NextQSVM ==
    \/ QSVM_fit /\ UNCHANGED << selvars, gvars, cvars, kvars, mvars, tvars >>
    \/ QSVM_predict /\ UNCHANGED << selvars, gvars, cvars, kvars, mvars, tvars >>
    \/ QSVM_predict_proba /\ UNCHANGED << selvars, gvars, cvars, kvars, mvars, tvars >>
    \/ QSVM_score /\ UNCHANGED << selvars, gvars, cvars, kvars, mvars, tvars >>

(***************************************************************************)
(* QuantumFeatureSelector.__init__.                                        *)
(***************************************************************************)
\* Python's "a or b" on an optional integer: b when a is None or 0
or_default(a, b) == IF a = NoneInt \/ a = 0 THEN b ELSE a

\* "self.max_features = max_features or min(n_features, 8)"
effective_max_features(arg, n) == or_default(arg, Min(n, NISQ_LIMIT))

\* the max_features arguments a caller passes: none, or a count
MaxFeatureArgs == { NoneInt } \cup 0..(MaxN + 1)

\* the frame of select_features_greedy when no call is running
FrameIdle ==
    /\ g_pc = "idle"
    /\ selected = << >>
    /\ remaining = << >>
    /\ best_score = 0
    /\ g_i = 0
    /\ best_feature = NoneInt
    /\ current_best_score = 0
    /\ cursor = 0
    /\ tried = << >>
    /\ accepted = << >>
    /\ trained = 0

Selector_init ==
    /\ n_features \in 1..MaxN
    /\ max_features_arg \in MaxFeatureArgs
    /\ max_features = effective_max_features(max_features_arg, n_features)
    /\ selected_features = NoneList
    /\ sel_qsvm = "None"
    /\ sel_fitted = FALSE
    /\ s_last = [op |-> "init", out |-> "returned", arg |-> FALSE,
                 trains |-> 0, value |-> NoneList]
    /\ FrameIdle

(***************************************************************************)
(* select_features_greedy, one step per loop position.                     *)
(***************************************************************************)
\* lines 301-305: the call starts
Select_call ==
    /\ g_pc = "idle"
    /\ selected' = << >>
    /\ remaining' = Range(n_features)
    /\ best_score' = 0
    /\ g_i' = 0
    /\ g_pc' = "for_i"
    /\ s_last' = [op |-> "select_features_greedy", out |-> "running",
                  arg |-> FALSE, trains |-> 0, value |-> NoneList]
    /\ UNCHANGED << best_feature, current_best_score, cursor, tried,
                    accepted, trained >>
    /\ UNCHANGED << n_features, max_features, max_features_arg,
                    selected_features, sel_qsvm, sel_fitted >>

\* lines 307-309: "for i in range(self.max_features)" takes its next value,
\* or the range is exhausted
Select_for_i ==
    /\ g_pc = "for_i"
    /\ IF g_i < max_features
       THEN /\ best_feature' = NoneInt
            /\ current_best_score' = best_score
            /\ cursor' = 1
            /\ tried' = << >>
            /\ g_pc' = "for_feature"
       ELSE /\ g_pc' = "return"
            /\ UNCHANGED << best_feature, current_best_score, cursor, tried >>
    /\ UNCHANGED << selected, remaining, best_score, g_i, accepted, trained >>
    /\ UNCHANGED selvars

\* faulty variant: a candidate that ties the best so far replaces it
improves_or_ties(score, best) == score >= best

\* "if score > current_best_score"
improves(score, best) == score > best

\* the frame when a call has left it
FrameCleared ==
    /\ g_pc' = "idle"
    /\ selected' = << >>
    /\ remaining' = << >>
    /\ best_score' = 0
    /\ g_i' = 0
    /\ best_feature' = NoneInt
    /\ current_best_score' = 0
    /\ cursor' = 0
    /\ tried' = << >>
    /\ accepted' = << >>
    /\ trained' = 0

\* lines 311-330: one pass of "for feature in remaining": a fresh QSVM is
\* built on selected + [feature], fitted and scored; any of the three may
\* raise, which ends the call
Select_trial ==
    /\ g_pc = "for_feature"
    /\ cursor <= Len(remaining)
    /\ LET feature == remaining[cursor]
       IN  \/ \E score \in Scores :
                /\ trained' = trained + 1
                /\ tried' = Append(tried, score)
                /\ IF improves(score, current_best_score)
                   THEN /\ current_best_score' = score
                        /\ best_feature' = feature
                   ELSE UNCHANGED << current_best_score, best_feature >>
                /\ cursor' = cursor + 1
                /\ UNCHANGED << g_pc, selected, remaining, best_score, g_i,
                                accepted >>
                /\ UNCHANGED selvars
           \/ /\ FrameCleared
              /\ s_last' = [s_last EXCEPT !.out = "raised",
                                          !.trains = trained + 1]
              /\ UNCHANGED << n_features, max_features, max_features_arg,
                              selected_features, sel_qsvm, sel_fitted >>

\* lines 332-339: the inner loop is over
Select_round_end ==
    /\ g_pc = "for_feature"
    /\ cursor > Len(remaining)
    /\ IF best_feature # NoneInt
       THEN /\ selected' = Append(selected, best_feature)
            /\ remaining' = Remove(remaining, best_feature)
            /\ best_score' = current_best_score
            /\ accepted' = Append(accepted, current_best_score)
            /\ g_i' = g_i + 1
            /\ g_pc' = "for_i"
       ELSE /\ g_pc' = "return"
            /\ UNCHANGED << selected, remaining, best_score, accepted, g_i >>
    /\ UNCHANGED << best_feature, current_best_score, cursor, tried, trained >>
    /\ UNCHANGED selvars

\* lines 341-342
Select_return ==
    /\ g_pc = "return"
    /\ selected_features' = selected
    /\ s_last' = [s_last EXCEPT !.out = "returned", !.trains = trained,
                                !.value = selected]
    /\ FrameCleared
    /\ UNCHANGED << n_features, max_features, max_features_arg, sel_qsvm,
                    sel_fitted >>

Select_step ==
    \/ Select_for_i
    \/ Select_trial
    \/ Select_round_end
    \/ Select_return

(***************************************************************************)
(* QuantumFeatureSelector.fit.                                             *)
(***************************************************************************)
\* the selected_features arguments a caller passes: none, or a non-empty
\* list of column indices of X_train
FitArgs == { NoneList } \cup SeqsOf(0..(n_features - 1), 1, MaxFitArg)

Selector_fit ==
    /\ g_pc = "idle"
    /\ \E arg \in FitArgs, ctor_ok \in BOOLEAN, fit_ok \in BOOLEAN :
        LET sf == IF arg # NoneList THEN arg ELSE selected_features
            given == arg # NoneList
        IN  /\ selected_features' = sf
            /\ IF sf = NoneList
               THEN /\ s_last' = [op |-> "fit",
                          out |-> "ValueError: No features selected. Run select_features_greedy first.",
                          arg |-> given, trains |-> 0, value |-> NoneList]
                    /\ UNCHANGED << sel_qsvm, sel_fitted >>
               ELSE IF ~ ctor_ok
               THEN \* QSVM(...) raised: self.qsvm is not assigned
                    /\ s_last' = [op |-> "fit", out |-> "raised",
                                  arg |-> given, trains |-> 0,
                                  value |-> NoneList]
                    /\ UNCHANGED << sel_qsvm, sel_fitted >>
               ELSE \* self.qsvm holds the new QSVM before it is fitted
                    /\ sel_qsvm' = IF fit_ok THEN "trained" ELSE "untrained"
                    /\ sel_fitted' = (sel_fitted \/ fit_ok)
                    /\ s_last' = [op |-> "fit",
                                  out |-> IF fit_ok THEN "returned"
                                          ELSE "raised",
                                  arg |-> given, trains |-> 1,
                                  value |-> NoneList]
    /\ UNCHANGED << n_features, max_features, max_features_arg >>
    /\ UNCHANGED gvars

(***************************************************************************)
(* QuantumFeatureSelector.predict / predict_proba.                         *)
(***************************************************************************)
selector_predict_outcome(name, ok) ==
    [op |-> name,
     out |-> IF sel_qsvm = "None"
             THEN "ValueError: Model not trained. Call fit() first."
             ELSE IF sel_qsvm = "untrained"
             THEN "ValueError: Model must be trained before prediction"
             ELSE IF ok THEN "returned" ELSE "raised",
     arg |-> FALSE, trains |-> 0, value |-> NoneList]

Selector_predict ==
    /\ g_pc = "idle"
    /\ \E ok \in BOOLEAN : s_last' = selector_predict_outcome("predict", ok)
    /\ UNCHANGED << n_features, max_features, max_features_arg,
                    selected_features, sel_qsvm, sel_fitted >>
    /\ UNCHANGED gvars

Selector_predict_proba ==
    /\ g_pc = "idle"
    /\ \E ok \in BOOLEAN :
        s_last' = selector_predict_outcome("predict_proba", ok)
    /\ UNCHANGED << n_features, max_features, max_features_arg,
                    selected_features, sel_qsvm, sel_fitted >>
    /\ UNCHANGED gvars

\* one greedy search on a fresh selector
NextGreedy ==
    \/ Select_call /\ selected_features = NoneList /\ UNCHANGED << qvars, cvars, kvars, mvars, tvars >>
    \/ Select_for_i /\ UNCHANGED << qvars, cvars, kvars, mvars, tvars >>
    \/ Select_trial /\ UNCHANGED << qvars, cvars, kvars, mvars, tvars >>
    \/ Select_round_end /\ UNCHANGED << qvars, cvars, kvars, mvars, tvars >>
    \/ Select_return /\ UNCHANGED << qvars, cvars, kvars, mvars, tvars >>

\* any sequence of calls on one selector
NextSelector ==
    \/ Select_call /\ UNCHANGED << qvars, cvars, kvars, mvars, tvars >>
    \/ Select_for_i /\ UNCHANGED << qvars, cvars, kvars, mvars, tvars >>
    \/ Select_trial /\ UNCHANGED << qvars, cvars, kvars, mvars, tvars >>
    \/ Select_round_end /\ UNCHANGED << qvars, cvars, kvars, mvars, tvars >>
    \/ Select_return /\ UNCHANGED << qvars, cvars, kvars, mvars, tvars >>
    \/ Selector_fit /\ UNCHANGED << qvars, cvars, kvars, mvars, tvars >>
    \/ Selector_predict /\ UNCHANGED << qvars, cvars, kvars, mvars, tvars >>
    \/ Selector_predict_proba /\ UNCHANGED << qvars, cvars, kvars, mvars, tvars >>

(***************************************************************************)
(* QCentroidChallengeAPI and QCentroidClient.  A dictionary is a record    *)
(* [status, job_id, seq, src]: src tells where it was built ("submit": the *)
(* response to the job submission, "poll": the response to a status        *)
(* request, "local": built by wait_for_job) and seq numbers the status     *)
(* responses of one wait.                                                  *)
(***************************************************************************)
\* dict.get('job_id') of a response without that key
NoJobId == "<None>"

NoDict == [status |-> "", job_id |-> "", seq |-> 0, src |-> "none"]

\* "if job_status in ['completed', 'success', 'finished']"
SuccessStatuses == { "completed", "success", "finished" }

\* "elif job_status in ['failed', 'error', 'cancelled']"
FailureStatuses == { "failed", "error", "cancelled" }

\* what a status response can carry; "unknown" also stands for a response
\* without a status and for get_job_status's answer to a request error
PollStatuses == SuccessStatuses \cup FailureStatuses \cup { "running", "unknown" }

\* faulty variant: only the successful statuses end the wait
job_done_on_success(job_status) == job_status \in SuccessStatuses

\* lines 162-167: does wait_for_job return the response with this status?
job_done(job_status) ==
    job_status \in SuccessStatuses \/ job_status \in FailureStatuses

\* faulty variant: the deadline itself still polls
keep_waiting_inclusive(waited, limit) == waited <= limit

\* line 156: "while time.time() - start_time < max_wait_time"
keep_waiting(waited, limit) == waited < limit

\* line 172
timeout_dict(job) ==
    [status |-> "timeout", job_id |-> job, seq |-> 0, src |-> "local"]

\* faulty variant: "if job_id is not None"
is_not_none(job_id) == job_id # NoJobId

\* line 222: "if job_id:"
truthy(job_id) == job_id # NoJobId /\ job_id # ""

\* the arguments of a direct call of wait_for_job
WaitArgs == (-1)..MaxWaitArg
PollArgs == 1..MaxPollArg
JobIds == { "job-1" }

\* what the challenge API answers to a submission
SubmitResponses ==
    [status : { "queued" }, job_id : { NoJobId, "" } \cup JobIds,
     seq : { 0 }, src : { "submit" }]

Client_init ==
    /\ c_pc = "idle"
    /\ c_caller = "none"
    /\ w_job_id = ""
    /\ max_wait_time = 0
    /\ poll_interval = 1
    /\ elapsed = 0
    /\ status = NoDict
    /\ polls = 0
    /\ first_final = 0
    /\ polled_late = FALSE
    /\ w_result = NoDict
    /\ submits = 0
    /\ job_result = NoDict
    /\ c_last = [op |-> "init", out |-> "returned", value |-> NoDict]

\* lines 153-154: wait_for_job starts waiting for job
wait_entered(job, limit, interval) ==
    /\ c_pc' = "loop"
    /\ w_job_id' = job
    /\ max_wait_time' = limit
    /\ poll_interval' = interval
    /\ elapsed' = 0
    /\ status' = NoDict
    /\ polls' = 0
    /\ first_final' = 0
    /\ polled_late' = FALSE
    /\ w_result' = NoDict

\* a caller calls wait_for_job itself
WaitForJob_call ==
    /\ c_pc = "idle"
    /\ \E job \in JobIds, limit \in WaitArgs, interval \in PollArgs :
          wait_entered(job, limit, interval)
    /\ c_caller' = "wait_for_job"
    /\ c_last' = [op |-> "wait_for_job", out |-> "running", value |-> NoDict]
    /\ UNCHANGED << submits, job_result >>

\* lines 156-159: the loop condition holds and the status is requested; the
\* request takes 0..MaxLatency seconds
Wait_poll ==
    /\ c_pc = "loop"
    /\ keep_waiting(elapsed, max_wait_time)
    /\ \E s \in PollStatuses, latency \in 0..MaxLatency :
        /\ status' = [status |-> s, job_id |-> w_job_id, seq |-> polls + 1,
                      src |-> "poll"]
        /\ first_final' = IF first_final = 0 /\ s \in SuccessStatuses \cup FailureStatuses
                          THEN polls + 1 ELSE first_final
        /\ elapsed' = elapsed + latency
    /\ polls' = polls + 1
    /\ polled_late' = (polled_late \/ elapsed >= max_wait_time)
    /\ c_pc' = "examine"
    /\ UNCHANGED << c_caller, w_job_id, max_wait_time, poll_interval,
                    w_result, submits, job_result, c_last >>

\* wait_for_job returns value, to its caller or to execute_circuit, which
\* returns it in turn (lines 223-224)
wait_returns(value) ==
    /\ w_result' = value
    /\ c_pc' = "idle"
    /\ c_last' = [c_last EXCEPT !.out = "returned", !.value = value]

\* lines 162-169: the response ends the wait, or the loop sleeps for
\* poll_interval seconds or up to MaxOversleep more
Wait_examine ==
    /\ c_pc = "examine"
    /\ IF job_done(status.status)
       THEN /\ wait_returns(status)
            /\ UNCHANGED elapsed
       ELSE /\ \E over \in 0..MaxOversleep :
                  elapsed' = elapsed + poll_interval + over
            /\ c_pc' = "loop"
            /\ UNCHANGED << w_result, c_last >>
    /\ status' = NoDict
    /\ UNCHANGED << c_caller, w_job_id, max_wait_time, poll_interval, polls,
                    first_final, polled_late, submits, job_result >>

\* lines 171-172: the loop condition fails
Wait_timeout ==
    /\ c_pc = "loop"
    /\ ~ keep_waiting(elapsed, max_wait_time)
    /\ wait_returns(timeout_dict(w_job_id))
    /\ UNCHANGED << c_caller, w_job_id, max_wait_time, poll_interval, elapsed,
                    status, polls, first_final, polled_late, submits,
                    job_result >>

\* the wait is not entered
no_wait ==
    /\ c_pc' = "idle"
    /\ w_job_id' = ""
    /\ max_wait_time' = 0
    /\ poll_interval' = 1
    /\ elapsed' = 0
    /\ status' = NoDict
    /\ polls' = 0
    /\ first_final' = 0
    /\ polled_late' = FALSE
    /\ w_result' = NoDict

\* execute_circuit up to the point where it waits: the circuit is converted
\* (circuit.qasm(), str(circuit) on AttributeError; any other exception of
\* qasm() escapes), the job is submitted (a request error becomes
\* RuntimeError), and a response with a job_id is waited for with
\* wait_for_job's defaults
Execute_call ==
    /\ c_pc = "idle"
    /\ c_caller' = "execute_circuit"
    /\ \/ \* circuit.qasm() raised something other than AttributeError
          /\ submits' = 0
          /\ job_result' = NoDict
          /\ no_wait
          /\ c_last' = [op |-> "execute_circuit",
                        out |-> "raised: circuit.qasm()", value |-> NoDict]
       \/ \* requests.post or raise_for_status raised a RequestException
          /\ submits' = 1
          /\ job_result' = NoDict
          /\ no_wait
          /\ c_last' = [op |-> "execute_circuit", out |-> "RuntimeError",
                        value |-> NoDict]
       \/ \E response \in SubmitResponses :
            /\ submits' = 1
            /\ job_result' = response
            /\ IF truthy(response.job_id)
               THEN /\ wait_entered(response.job_id, DefaultMaxWait,
                                    DefaultPollInterval)
                    /\ c_last' = [op |-> "execute_circuit",
                                  out |-> "running", value |-> NoDict]
               ELSE /\ no_wait
                    /\ c_last' = [op |-> "execute_circuit",
                                  out |-> "returned", value |-> response]

Wait_step ==
    \/ Wait_poll
    \/ Wait_examine
    \/ Wait_timeout

NextClient ==
    \/ WaitForJob_call /\ UNCHANGED << qvars, selvars, gvars, kvars, mvars, tvars >>
    \/ Execute_call /\ UNCHANGED << qvars, selvars, gvars, kvars, mvars, tvars >>
    \/ Wait_poll /\ UNCHANGED << qvars, selvars, gvars, kvars, mvars, tvars >>
    \/ Wait_examine /\ UNCHANGED << qvars, selvars, gvars, kvars, mvars, tvars >>
    \/ Wait_timeout /\ UNCHANGED << qvars, selvars, gvars, kvars, mvars, tvars >>

(***************************************************************************)
(* QCentroidConfig, the constructors of QCentroidChallengeAPI and          *)
(* QCentroidClient, and the global client of get_qcentroid_client          *)
(* (src/model/qcentroid_config.py).  The process environment is an input:  *)
(* it may change between two calls.                                        *)
(***************************************************************************)
\* os.getenv of a variable that is not set
NoEnv == "<unset>"

ApiKeys == { NoEnv, "", "key" }

WorkspaceIds == { NoEnv, "ws" }

\* values of QCENTROID_MAX_QUBITS and of QCENTROID_SHOTS
QubitEnvs == { NoEnv, "5", "ten" }

ShotEnvs == { NoEnv, "" }

\* os.getenv(name, default)
getenv(value, default) == IF value = NoEnv THEN default ELSE value

\* the strings of this model that int() accepts, with their values
Numerals == { "5", "10", "1024" }

int_raises(s) == s \notin Numerals

int(s) ==
    CASE s = "5" -> 5
      [] s = "10" -> 10
      [] s = "1024" -> 1024

\* no QCentroidConfig object (None)
NoConfig == [api_key |-> NoEnv, workspace_id |-> NoEnv,
             max_qubits |-> NoneInt, shots |-> NoneInt]

\* lines 37-38: QCentroidConfig() raises ValueError out of int()
QCentroidConfig_raises(qubits, shots) ==
    \/ int_raises(getenv(qubits, "10"))
    \/ int_raises(getenv(shots, "1024"))

\* lines 26-38: the object QCentroidConfig() builds
QCentroidConfig_init(key, ws, qubits, shots) ==
    [api_key |-> key, workspace_id |-> ws,
     max_qubits |-> int(getenv(qubits, "10")),
     shots |-> int(getenv(shots, "1024"))]

\* "not value" of an Optional[str]: None and "" are falsy
not_str(value) == value \in { NoEnv, "" }

\* faulty variant: a missing workspace id is an error too
validate_strict(cfg) == not_str(cfg.api_key) \/ not_str(cfg.workspace_id)

\* lines 42-43: validate raises ValueError; lines 44-46: otherwise it
\* returns True, a missing workspace id only printing a warning
validate_raises(cfg) == not_str(cfg.api_key)

KeyError == "ValueError: QCENTROID_API_KEY not set"

IntError == "ValueError: invalid literal for int()"

\* faulty variant: the global is never found set
never_set(client) == TRUE

\* line 254: "_qcentroid_client is None" (0 stands for None)
is_None(client) == client = 0

\* the record of a call: the configuration it was given (given: was one
\* passed?), the environment it ran in, the global before it (before), the
\* QCentroidClient() calls it made (constructs) and the instance it returned
\* (0: none)
call_record(op, given, out, before, constructs, instance) ==
    [op |-> op, out |-> out, given |-> given # NoConfig,
     key |-> IF given = NoConfig THEN env_api_key ELSE given.api_key,
     ws |-> IF given = NoConfig THEN env_workspace_id ELSE given.workspace_id,
     qubits |-> env_max_qubits, shots |-> env_shots,
     before |-> before, constructs |-> constructs, instance |-> instance]

Config_init ==
    /\ env_api_key \in ApiKeys
    /\ env_workspace_id \in WorkspaceIds
    /\ env_max_qubits \in QubitEnvs
    /\ env_shots \in ShotEnvs
    /\ config = NoConfig
    /\ qcentroid_client = 0
    /\ global_built = 0
    /\ k_last = [op |-> "none", out |-> "none", given |-> FALSE,
                 key |-> NoEnv, ws |-> NoEnv, qubits |-> NoEnv,
                 shots |-> NoEnv, before |-> 0, constructs |-> 0,
                 instance |-> 0]

\* the environment (or the .env file before load_dotenv) is edited
SetEnv ==
    /\ \/ /\ env_api_key' \in ApiKeys \ { env_api_key }
          /\ UNCHANGED << env_workspace_id, env_max_qubits, env_shots >>
       \/ /\ env_workspace_id' \in WorkspaceIds \ { env_workspace_id }
          /\ UNCHANGED << env_api_key, env_max_qubits, env_shots >>
       \/ /\ env_max_qubits' \in QubitEnvs \ { env_max_qubits }
          /\ UNCHANGED << env_api_key, env_workspace_id, env_shots >>
       \/ /\ env_shots' \in ShotEnvs \ { env_shots }
          /\ UNCHANGED << env_api_key, env_workspace_id, env_max_qubits >>
    /\ UNCHANGED << config, qcentroid_client, global_built, k_last >>

\* "config or QCentroidConfig()" (lines 65, 184): an object is truthy
config_or_new(given) ==
    IF given = NoConfig
    THEN QCentroidConfig_init(env_api_key, env_workspace_id, env_max_qubits,
                              env_shots)
    ELSE given

\* lines 64-67: how QCentroidChallengeAPI(given) ends
QCentroidChallengeAPI_out(given) ==
    IF given = NoConfig /\ QCentroidConfig_raises(env_max_qubits, env_shots)
    THEN IntError
    ELSE IF validate_raises(config_or_new(given)) THEN KeyError
         ELSE "returned"

\* lines 183-186: how QCentroidClient(given) ends; line 186 hands the
\* object of line 184 to QCentroidChallengeAPI
QCentroidClient_out(given) ==
    IF given = NoConfig /\ QCentroidConfig_raises(env_max_qubits, env_shots)
    THEN IntError
    ELSE IF validate_raises(config_or_new(given)) THEN KeyError
         ELSE QCentroidChallengeAPI_out(config_or_new(given))

\* a caller builds a QCentroidConfig and keeps it
Config_new ==
    /\ IF QCentroidConfig_raises(env_max_qubits, env_shots)
       THEN /\ k_last' = call_record("QCentroidConfig", NoConfig, IntError,
                                     qcentroid_client, 0, 0)
            /\ UNCHANGED config
       ELSE /\ config' = config_or_new(NoConfig)
            /\ k_last' = call_record("QCentroidConfig", NoConfig, "returned",
                                     qcentroid_client, 0, 0)
    /\ UNCHANGED << env_api_key, env_workspace_id, env_max_qubits, env_shots,
                    qcentroid_client, global_built >>

\* config.validate() on the object the caller keeps
Validate_call ==
    /\ config # NoConfig
    /\ k_last' = call_record("validate", config,
                             IF validate_raises(config) THEN KeyError
                             ELSE "returned True",
                             qcentroid_client, 0, 0)
    /\ UNCHANGED << env_api_key, env_workspace_id, env_max_qubits, env_shots,
                    config, qcentroid_client, global_built >>

\* the configurations a constructor can be passed: none, or the caller's
GivenConfigs == { NoConfig, config }

\* QCentroidChallengeAPI(config) or QCentroidChallengeAPI()
API_new ==
    /\ \E given \in GivenConfigs :
          k_last' = call_record("QCentroidChallengeAPI", given,
                                QCentroidChallengeAPI_out(given),
                                qcentroid_client, 0, 0)
    /\ UNCHANGED << env_api_key, env_workspace_id, env_max_qubits, env_shots,
                    config, qcentroid_client, global_built >>

\* QCentroidClient(config) or QCentroidClient(), outside the global
Client_new ==
    /\ \E given \in GivenConfigs :
          k_last' = call_record("QCentroidClient", given,
                                QCentroidClient_out(given),
                                qcentroid_client, 1, 0)
    /\ UNCHANGED << env_api_key, env_workspace_id, env_max_qubits, env_shots,
                    config, qcentroid_client, global_built >>

\* lines 251-256: get_qcentroid_client(); the instances the global has held
\* are numbered 1, 2, ... in the order they were built
get_qcentroid_client ==
    /\ IF is_None(qcentroid_client)
       THEN IF QCentroidClient_out(NoConfig) = "returned"
            THEN /\ global_built < MaxBuilt
                 /\ qcentroid_client' = global_built + 1
                 /\ global_built' = global_built + 1
                 /\ k_last' = call_record("get_qcentroid_client", NoConfig,
                                          "returned", qcentroid_client, 1,
                                          global_built + 1)
            ELSE /\ k_last' = call_record("get_qcentroid_client", NoConfig,
                                          QCentroidClient_out(NoConfig),
                                          qcentroid_client, 1, 0)
                 /\ UNCHANGED << qcentroid_client, global_built >>
       ELSE /\ k_last' = call_record("get_qcentroid_client", NoConfig,
                                     "returned", qcentroid_client, 0,
                                     qcentroid_client)
            /\ UNCHANGED << qcentroid_client, global_built >>
    /\ UNCHANGED << env_api_key, env_workspace_id, env_max_qubits, env_shots,
                    config >>

NextConfig ==
    \/ SetEnv /\ UNCHANGED << qvars, selvars, gvars, cvars, mvars, tvars >>
    \/ Config_new /\ UNCHANGED << qvars, selvars, gvars, cvars, mvars, tvars >>
    \/ Validate_call /\ UNCHANGED << qvars, selvars, gvars, cvars, mvars, tvars >>
    \/ API_new /\ UNCHANGED << qvars, selvars, gvars, cvars, mvars, tvars >>
    \/ Client_new /\ UNCHANGED << qvars, selvars, gvars, cvars, mvars, tvars >>
    \/ get_qcentroid_client /\ UNCHANGED << qvars, selvars, gvars, cvars, mvars, tvars >>

(***************************************************************************)
(* The solver pipeline (src/quantum_solver.py) run by the entry point      *)
(* src/main.py.  An array is modelled by where it came from and its shape. *)
(***************************************************************************)
\* lines 54-57: the files of data/processed, in the order they are loaded
FileNames == << "X_train_scaled.npy", "y_train_resampled.npy",
                "X_test_scaled.npy", "y_test.npy" >>

FileSet == { FileNames[i] : i \in 1..4 }

\* lines 79-81
SampleTrainRows == 500

SampleTestRows == 100

SampleFeatures == 8

\* line 345
n_quantum_features == 8

\* line 351
max_train_samples == 1000

\* no arrays yet
NoArrays == << >>

\* lines 73-109: X_train, y_train, X_test, y_test of create_sample_dataset
\* (cols 0: one-dimensional)
create_sample_dataset ==
    << [src |-> "sample", rows |-> SampleTrainRows, cols |-> SampleFeatures],
       [src |-> "sample", rows |-> SampleTrainRows, cols |-> 0],
       [src |-> "sample", rows |-> SampleTestRows, cols |-> SampleFeatures],
       [src |-> "sample", rows |-> SampleTestRows, cols |-> 0] >>

\* the arrays the four files hold: rows samples (in each set), cols features
disk_dataset(rows, cols) ==
    << [src |-> "disk", rows |-> rows, cols |-> cols],
       [src |-> "disk", rows |-> rows, cols |-> 0],
       [src |-> "disk", rows |-> rows, cols |-> cols],
       [src |-> "disk", rows |-> rows, cols |-> 0] >>

\* np.load of one file: it returns, or raises FileNotFoundError for a
\* missing file and ValueError for one it cannot read
np_load(name, on_disk, unreadable) ==
    IF name \notin on_disk THEN "FileNotFoundError"
    ELSE IF name \in unreadable THEN "ValueError"
    ELSE "ok"

\* lines 54-57: the first of the four loads that raises (0: none does)
first_failure(on_disk, unreadable) ==
    IF \A i \in 1..4 : np_load(FileNames[i], on_disk, unreadable) = "ok"
    THEN 0
    ELSE CHOOSE i \in 1..4 :
            /\ np_load(FileNames[i], on_disk, unreadable) # "ok"
            /\ \A j \in 1..(i - 1) :
                  np_load(FileNames[j], on_disk, unreadable) = "ok"

\* lines 53-70: the exception load_dataset raises ("none": it returns);
\* line 68 catches FileNotFoundError only
load_dataset_raises(on_disk, unreadable) ==
    LET i == first_failure(on_disk, unreadable)
    IN  IF i = 0 THEN "none"
        ELSE IF np_load(FileNames[i], on_disk, unreadable) = "FileNotFoundError"
             THEN "none"
             ELSE np_load(FileNames[i], on_disk, unreadable)

\* faulty variant: each missing file is replaced on its own
load_each_or_sample(on_disk, unreadable, rows, cols) ==
    [i \in 1..4 |->
        IF np_load(FileNames[i], on_disk, unreadable) = "ok"
        THEN disk_dataset(rows, cols)[i]
        ELSE create_sample_dataset[i]]

\* lines 53-70: what load_dataset returns when it returns
load_dataset(on_disk, unreadable, rows, cols) ==
    IF first_failure(on_disk, unreadable) = 0
    THEN disk_dataset(rows, cols)
    ELSE create_sample_dataset

\* faulty variant: a failed verification ends the run
stop_when_unavailable(available) ==
    IF available = "True" THEN "select" ELSE "done"

\* lines 342-346: quantum_available is assigned and never read
after_verify(available) == "select"

\* faulty variant: an interrupted run counts as a success
status_ignoring_interrupt(out) ==
    IF out \in { "returned", "KeyboardInterrupt" } THEN 0 ELSE 1

\* src/main.py lines 22-32: the status the entry point exits with
exit_status_of(out) ==
    IF out = "returned" THEN 0
    ELSE IF out = "KeyboardInterrupt" THEN 1
    ELSE 1

\* subclasses of Exception raised in this model
ExceptionKinds == { "Exception", "ValueError", "FileNotFoundError",
                    "ImportError" }

\* src/main.py lines 26-32: does a handler of the try catch it?
handled(out) == out = "KeyboardInterrupt" \/ out \in ExceptionKinds

\* qsvm_classifier.py lines 105-108: the backend of QuantumKernelComputer
backend_or_simulator(backend) ==
    IF backend = "None" THEN "AerSimulator" ELSE backend

\* lines 318-322: the files save_results writes, in order
ResultFiles == << "predictions.npy", "probabilities.npy", "metrics.txt" >>

Steps == { "load", "verify", "select", "sample", "train", "evaluate", "save" }

Solver_init ==
    /\ files \in SUBSET FileSet
    /\ corrupt \in SUBSET files
    /\ disk_rows \in 1..MaxDiskRows
    /\ disk_cols \in 1..MaxDiskCols
    /\ e_pc = "start"
    /\ exit_status = NoneInt
    /\ escaped = "none"
    /\ m_pc = "idle"
    /\ m_steps = << >>
    /\ main_out = "none"
    /\ data = NoArrays
    /\ X_q_cols = NoneInt
    /\ sampled_rows = NoneInt
    /\ quantum_available = "unset"
    /\ kernel_backend = "none"
    /\ jobs_submitted = 0
    /\ quantum_model = "None"
    /\ results = "None"
    /\ written = << >>

\* the input files never change during a run
Inputs == << files, corrupt, disk_rows, disk_cols >>

\* the variables of main.py
Entry == << e_pc, exit_status, escaped >>

\* main begins step
begins(step) == m_steps' = Append(m_steps, step)

\* the step main is at raises kind, which leaves main
main_raises(kind) ==
    /\ main_out' = kind
    /\ m_pc' = "done"

\* src/main.py line 20: "from quantum_solver import main", before the try;
\* the import of numpy, sklearn or the model package may fail
Entry_import ==
    /\ e_pc = "start"
    /\ \/ /\ e_pc' = "main"
          /\ m_pc' = "load"
          /\ main_out' = "running"
          /\ UNCHANGED << exit_status, escaped >>
       \/ /\ e_pc' = "exited"
          /\ exit_status' = 1
          /\ escaped' = "ImportError"
          /\ UNCHANGED << m_pc, main_out >>
    /\ UNCHANGED << Inputs, m_steps, data, X_q_cols, sampled_rows,
                    quantum_available, kernel_backend, jobs_submitted,
                    quantum_model, results, written >>

\* line 339: load_dataset()
Main_load ==
    /\ m_pc = "load"
    /\ begins("load")
    /\ IF load_dataset_raises(files, corrupt) = "none"
       THEN /\ data' = load_dataset(files, corrupt, disk_rows, disk_cols)
            /\ m_pc' = "verify"
            /\ UNCHANGED main_out
       ELSE /\ main_raises(load_dataset_raises(files, corrupt))
            /\ UNCHANGED data
    /\ UNCHANGED << Inputs, Entry, X_q_cols, sampled_rows, quantum_available,
                    kernel_backend, jobs_submitted, quantum_model, results,
                    written >>

\* line 342: verify_quantum_backend(), lines 112-136: get_qcentroid_client
\* returns and get_backend_info describes the client, or the handler of
\* line 132 turns the exception into False
Main_verify ==
    /\ m_pc = "verify"
    /\ begins("verify")
    /\ get_qcentroid_client
    /\ quantum_available' =
          IF k_last'.out = "returned" THEN "True" ELSE "False"
    /\ m_pc' = after_verify(quantum_available')
    /\ UNCHANGED << Inputs, Entry, main_out, data, X_q_cols, sampled_rows,
                    kernel_backend, jobs_submitted, quantum_model, results,
                    written >>

\* arrays read from disk may not have the shape the pipeline expects
MayBeMalformed == data[1].src = "disk"

\* lines 346-348: select_features(X_train, X_test, 8), lines 139-163
Main_select ==
    /\ m_pc = "select"
    /\ begins("select")
    /\ \/ /\ X_q_cols' = Min(data[1].cols, n_quantum_features)
          /\ m_pc' = "sample"
          /\ UNCHANGED main_out
       \/ /\ MayBeMalformed
          /\ main_raises("Exception")
          /\ UNCHANGED X_q_cols
    /\ UNCHANGED << Inputs, Entry, data, sampled_rows, quantum_available,
                    kernel_backend, jobs_submitted, quantum_model, results,
                    written >>

\* lines 352-354: sample_for_quantum(X_train_q, y_train, 1000), lines
\* 166-202
Main_sample ==
    /\ m_pc = "sample"
    /\ begins("sample")
    /\ \/ /\ sampled_rows' = Min(data[1].rows, max_train_samples)
          /\ m_pc' = "train"
          /\ UNCHANGED main_out
       \/ /\ MayBeMalformed
          /\ main_raises("Exception")
          /\ UNCHANGED sampled_rows
    /\ UNCHANGED << Inputs, Entry, data, X_q_cols, quantum_available,
                    kernel_backend, jobs_submitted, quantum_model, results,
                    written >>

\* lines 357-359: train_quantum_model, lines 205-247: QSVM(...) is built
\* without a backend and fit evaluates the kernel with it; an exception of
\* either is re-raised (line 247)
Main_train ==
    /\ m_pc = "train"
    /\ begins("train")
    /\ \/ /\ kernel_backend' = backend_or_simulator("None")
          /\ quantum_model' = "trained"
          /\ m_pc' = "evaluate"
          /\ UNCHANGED main_out
       \/ /\ kernel_backend' = backend_or_simulator("None")
          /\ main_raises("Exception")
          /\ UNCHANGED quantum_model
       \/ /\ main_raises("Exception")
          /\ UNCHANGED << kernel_backend, quantum_model >>
    /\ UNCHANGED << Inputs, Entry, data, X_q_cols, sampled_rows,
                    quantum_available, jobs_submitted, results, written >>

\* line 362: evaluate_model(quantum_model, X_test_q, y_test), lines 250-306
Main_evaluate ==
    /\ m_pc = "evaluate"
    /\ begins("evaluate")
    /\ \/ /\ results' = "computed"
          /\ m_pc' = "save"
          /\ UNCHANGED main_out
       \/ /\ main_raises("Exception")
          /\ UNCHANGED results
    /\ UNCHANGED << Inputs, Entry, data, X_q_cols, sampled_rows,
                    quantum_available, kernel_backend, jobs_submitted,
                    quantum_model, written >>

\* line 365: save_results(results), lines 309-331, and the summary of lines
\* 368-380; a write may fail after the files before it were written
Main_save ==
    /\ m_pc = "save"
    /\ begins("save")
    /\ \/ /\ written' = ResultFiles
          /\ main_out' = "returned"
          /\ m_pc' = "done"
       \/ /\ \E n \in 0..(Len(ResultFiles) - 1) :
                written' = SubSeq(ResultFiles, 1, n)
          /\ main_raises("Exception")
    /\ UNCHANGED << Inputs, Entry, data, X_q_cols, sampled_rows,
                    quantum_available, kernel_backend, jobs_submitted,
                    quantum_model, results >>

\* the user interrupts the run: KeyboardInterrupt is raised in main
Main_interrupt ==
    /\ m_pc \in Steps
    /\ main_raises("KeyboardInterrupt")
    /\ UNCHANGED << Inputs, Entry, m_steps, data, X_q_cols, sampled_rows,
                    quantum_available, kernel_backend, jobs_submitted,
                    quantum_model, results, written >>

\* src/main.py lines 22-32: run_quantum_solver() has returned or raised;
\* sys.exit(0) after a return, sys.exit(1) in a handler, and the traceback
\* of the interpreter (status 1) for what no handler catches
Entry_exit ==
    /\ e_pc = "main"
    /\ main_out # "running"
    /\ e_pc' = "exited"
    /\ exit_status' = exit_status_of(main_out)
    /\ escaped' = IF main_out = "returned" \/ handled(main_out)
                  THEN "none" ELSE main_out
    /\ UNCHANGED << Inputs, m_pc, m_steps, main_out, data, X_q_cols,
                    sampled_rows, quantum_available, kernel_backend,
                    jobs_submitted, quantum_model, results, written >>

NextSolver ==
    \/ Entry_import /\ UNCHANGED << qvars, selvars, gvars, cvars, kvars, tvars >>
    \/ Main_load /\ UNCHANGED << qvars, selvars, gvars, cvars, kvars, tvars >>
    \/ Main_verify /\ UNCHANGED << qvars, selvars, gvars, cvars, tvars >>
    \/ Main_select /\ UNCHANGED << qvars, selvars, gvars, cvars, kvars, tvars >>
    \/ Main_sample /\ UNCHANGED << qvars, selvars, gvars, cvars, kvars, tvars >>
    \/ Main_train /\ UNCHANGED << qvars, selvars, gvars, cvars, kvars, tvars >>
    \/ Main_evaluate /\ UNCHANGED << qvars, selvars, gvars, cvars, kvars, tvars >>
    \/ Main_save /\ UNCHANGED << qvars, selvars, gvars, cvars, kvars, tvars >>
    \/ Main_interrupt /\ UNCHANGED << qvars, selvars, gvars, cvars, kvars, tvars >>
    \/ Entry_exit /\ UNCHANGED << qvars, selvars, gvars, cvars, kvars, tvars >>

(***************************************************************************)
(* The quick test script (src/test_quantum_solver.py): five core checks,   *)
(* an optional one, and the summary.                                       *)
(***************************************************************************)
\* lines 15, 25, 55, 73, 93
CoreChecks == << "basic imports", "qiskit imports", "model imports",
                 "circuit creation", "QSVM instantiation" >>

\* line 107: the number of the optional check
OptionalCheck == 6

\* line 96: QSVM(n_features=4, reps=1, C=1.0)
TestNFeatures == 4

TestC == 1

NoQSVM == [n_features |-> NoneInt, C |-> NoneInt]

\* qsvm_classifier.py lines 160-161: the attributes QSVM.__init__ stores
QSVM_attrs(n, c) == [n_features |-> n, C |-> c]

\* what a check may raise: nothing, an ImportError, another Exception
CheckOutcomes == { "none", "ImportError", "Exception" }

\* faulty variant: the optional check is handled like a core check
handler_all_core(check, kind) ==
    IF kind = "none" THEN "continue" ELSE "sys.exit(1)"

\* what follows a check that raised kind: checks 1-3 catch ImportError
\* (lines 21, 50, 69), checks 4-5 and the optional check catch Exception
\* (lines 89, 101, 121); the core handlers call sys.exit(1), the optional
\* one only prints, and what is not caught ends the script with a traceback
handler(check, kind) ==
    IF kind = "none" THEN "continue"
    ELSE IF check = OptionalCheck THEN "continue"
    ELSE IF check <= 3 /\ kind # "ImportError" THEN "traceback"
    ELSE "sys.exit(1)"

Test_init ==
    /\ t_pc = 1
    /\ t_ran = << >>
    /\ t_passed = {}
    /\ t_qsvm = NoQSVM
    /\ t_printed = FALSE
    /\ t_exit = NoneInt
    /\ t_escaped = "none"

\* the script ends in a handler's sys.exit(1) or in a traceback, both with
\* status 1
test_ends(how, kind) ==
    /\ t_pc' = 8
    /\ t_exit' = 1
    /\ t_escaped' = IF how = "traceback" THEN kind ELSE "none"

\* lines 15-105: core check t_pc runs
Test_core ==
    /\ t_pc \in 1..5
    /\ t_ran' = Append(t_ran, t_pc)
    /\ \E kind \in CheckOutcomes :
          IF handler(t_pc, kind) = "continue"
          THEN /\ t_passed' = t_passed \cup { t_pc }
               /\ t_qsvm' = IF t_pc = 5
                            THEN QSVM_attrs(TestNFeatures, TestC)
                            ELSE t_qsvm
               /\ t_pc' = t_pc + 1
               /\ UNCHANGED << t_exit, t_escaped >>
          ELSE /\ test_ends(handler(t_pc, kind), kind)
               /\ UNCHANGED << t_passed, t_qsvm >>
    /\ UNCHANGED t_printed

\* lines 107-123: the optional check; load_dotenv may be missing, and
\* get_qcentroid_client raises without an API key
Test_optional ==
    /\ t_pc = OptionalCheck
    /\ t_ran' = Append(t_ran, OptionalCheck)
    /\ \/ /\ get_qcentroid_client
          /\ LET kind == IF k_last'.out = "returned" THEN "none"
                         ELSE "Exception"
             IN  IF handler(OptionalCheck, kind) = "continue"
                 THEN /\ t_passed' = IF kind = "none"
                                     THEN t_passed \cup { OptionalCheck }
                                     ELSE t_passed
                      /\ t_pc' = 7
                      /\ UNCHANGED << t_exit, t_escaped >>
                 ELSE /\ test_ends(handler(OptionalCheck, kind), kind)
                      /\ UNCHANGED t_passed
       \/ /\ UNCHANGED kvars
          /\ IF handler(OptionalCheck, "ImportError") = "continue"
             THEN /\ t_pc' = 7
                  /\ UNCHANGED << t_passed, t_exit, t_escaped >>
             ELSE /\ test_ends(handler(OptionalCheck, "ImportError"),
                               "ImportError")
                  /\ UNCHANGED t_passed
    /\ UNCHANGED << t_qsvm, t_printed >>

\* lines 125-132: the summary, then the script ends normally
Test_summary ==
    /\ t_pc = 7
    /\ t_printed' = TRUE
    /\ t_pc' = 8
    /\ t_exit' = 0
    /\ UNCHANGED << t_ran, t_passed, t_qsvm, t_escaped >>

NextTest ==
    \/ Test_core /\ UNCHANGED << qvars, selvars, gvars, cvars, kvars, mvars >>
    \/ Test_optional /\ UNCHANGED << qvars, selvars, gvars, cvars, mvars >>
    \/ Test_summary /\ UNCHANGED << qvars, selvars, gvars, cvars, kvars, mvars >>

\* the selector plays no part: one is fixed
NoSelector == n_features = 1 /\ max_features_arg = NoneInt

\* the environment plays no part: nothing is set
NoEnvironment ==
    /\ env_api_key = NoEnv
    /\ env_workspace_id = NoEnv
    /\ env_max_qubits = NoEnv
    /\ env_shots = NoEnv

\* the solver plays no part: nothing is on disk
NoSolver ==
    /\ files = {}
    /\ corrupt = {}
    /\ disk_rows = 1
    /\ disk_cols = 1

InitQSVM ==
    /\ QSVM_init /\ Selector_init /\ NoSelector /\ Client_init
    /\ Config_init /\ NoEnvironment
    /\ Solver_init /\ NoSolver /\ Test_init

InitSelector ==
    /\ QSVM_init /\ Selector_init /\ Client_init
    /\ Config_init /\ NoEnvironment
    /\ Solver_init /\ NoSolver /\ Test_init

InitClient ==
    /\ QSVM_init /\ Selector_init /\ NoSelector /\ Client_init
    /\ Config_init /\ NoEnvironment
    /\ Solver_init /\ NoSolver /\ Test_init

InitConfig ==
    /\ QSVM_init /\ Selector_init /\ NoSelector /\ Client_init
    /\ Config_init
    /\ Solver_init /\ NoSolver /\ Test_init

InitSolver ==
    /\ QSVM_init /\ Selector_init /\ NoSelector /\ Client_init
    /\ Config_init
    /\ Solver_init /\ Test_init

InitTest ==
    /\ QSVM_init /\ Selector_init /\ NoSelector /\ Client_init
    /\ Config_init
    /\ Solver_init /\ NoSolver /\ Test_init

\* one QSVM object, any sequence of calls
SpecQSVM == InitQSVM /\ [][NextQSVM]_vars

\* one selector, one greedy search
SpecGreedy == InitSelector /\ [][NextGreedy]_vars

FairSpecGreedy ==
    SpecGreedy /\ WF_vars(Select_step /\ UNCHANGED << qvars, cvars, kvars, mvars, tvars >>)

\* one selector, any sequence of calls
SpecSelector == InitSelector /\ [][NextSelector]_vars

\* one client, any sequence of wait_for_job and execute_circuit calls
SpecClient == InitClient /\ [][NextClient]_vars

\* a call that has started keeps running: its thread is never starved
FairSpecClient ==
    SpecClient /\ WF_vars(Wait_step /\ UNCHANGED << qvars, selvars, gvars, kvars, mvars, tvars >>)

\* any sequence of calls into qcentroid_config, in any environment
SpecConfig == InitConfig /\ [][NextConfig]_vars

\* one run of "python main.py", in any environment and on any data directory
SpecSolver == InitSolver /\ [][NextSolver]_vars

\* one run of "python test_quantum_solver.py", in any environment
SpecTest == InitTest /\ [][NextTest]_vars

(***************************************************************************)
(* QSVM: claims C1, C2 (checked under SpecQSVM).                           *)
(***************************************************************************)
PredictOps == { "predict", "predict_proba", "score" }

\* a call to fit has completed successfully on the object
FitCompleted == svm_fitted # NoData

\* C1: as long as no fit has completed successfully, predict, predict_proba
\* and score raise ValueError('Model must be trained before prediction') and
\* compute no kernel matrix; a call of theirs that returned a result was
\* made after a successful fit.
C1_UntrainedPredictRaises ==
    q_last.op \in PredictOps =>
        /\ ~ FitCompleted =>
              /\ q_last.out = "ValueError: Model must be trained before prediction"
              /\ q_last.K = NoKernel
        /\ q_last.out = "returned" => FitCompleted

\* a fit has raised, and then score was refused on the untrained object
C1_Witness ==
    /\ q_last.op = "score"
    /\ ~ FitCompleted
    /\ q_last.out = "ValueError: Model must be trained before prediction"

\* C2: whenever is_trained is true, X_train is the training set the SVC was
\* last successfully fitted on, and a kernel matrix built by a predicting
\* call has one column per sample of that set; a fit that raises leaves
\* is_trained and X_train as they were.
C2_TrainSetMatchesSVC ==
    /\ [](/\ is_trained => (X_train # NoData /\ X_train = svm_fitted)
          /\ (q_last.op \in PredictOps /\ q_last.K # NoKernel) =>
                q_last.K[2] = Len(svm_fitted))
    /\ [][(q_last'.op = "fit" /\ q_last'.out = "raised") =>
            UNCHANGED << is_trained, X_train >>]_vars

\* a trained object on which a later fit raised, keeping a two-sample
\* training set
C2_Witness ==
    /\ is_trained
    /\ q_last.op = "fit"
    /\ q_last.out = "raised"
    /\ Len(X_train) = 2

(***************************************************************************)
(* select_features_greedy: claims C3, C4 (SpecGreedy), C5                  *)
(* (FairSpecGreedy).                                                       *)
(***************************************************************************)
GreedyReturned ==
    s_last.op = "select_features_greedy" /\ s_last.out = "returned"

\* C3 (as claimed): the list select_features_greedy returns holds pairwise
\* distinct indices in 0..n_features-1 and is no longer than the
\* max_features argument of the constructor (than min(n_features, 8) when no
\* argument was given).
C3_LengthWithinArgument ==
    GreedyReturned =>
        LET r == s_last.value
        IN  /\ \A j, k \in 1..Len(r) : j # k => r[j] # r[k]
            /\ \A j \in 1..Len(r) : r[j] \in 0..(n_features - 1)
            /\ Len(r) <= IF max_features_arg # NoneInt THEN max_features_arg
                         ELSE Min(n_features, NISQ_LIMIT)

\* the largest element of a non-empty set of integers
MaxOf(S) == CHOOSE m \in S : \A x \in S : x <= m

MinOf(S) == CHOOSE m \in S : \A x \in S : m <= x

\* the round's winner, from the scores alone: the position in remaining of
\* the first candidate with the highest score, or 0 when no candidate's
\* score is strictly above the best score of the round before
Winner(scores, floor) ==
    IF \A j \in 1..Len(scores) : scores[j] <= floor THEN 0
    ELSE LET mx == MaxOf(Elems(scores))
         IN  MinOf({ j \in 1..Len(scores) : scores[j] = mx })

\* the trials of the current round are over
RoundOver == g_pc = "for_feature" /\ cursor > Len(remaining)

\* C4: every round appends the first-tried remaining feature of highest
\* validation accuracy, and only if that accuracy is strictly above the best
\* accuracy of the round before (0.0 at first); the search stops at the first
\* round without a strict improvement; the accuracies of the selected
\* prefixes are strictly increasing.
C4_GreedyHillClimb ==
    /\ [](/\ g_pc = "for_feature" => Len(tried) = cursor - 1
          /\ Len(accepted) = Len(selected)
          /\ \A j \in 1..Len(accepted) :
                accepted[j] > (IF j = 1 THEN 0 ELSE accepted[j - 1])
          /\ best_score = (IF accepted = << >> THEN 0
                           ELSE accepted[Len(accepted)])
          /\ g_pc = "return" =>
                \/ g_i >= max_features
                \/ Winner(tried, best_score) = 0)
    /\ [][RoundOver /\ g_pc' # "for_feature" =>
            LET w == Winner(tried, best_score)
            IN  IF w = 0
                THEN g_pc' = "return" /\ selected' = selected
                ELSE /\ g_pc' = "for_i"
                     /\ selected' = Append(selected, remaining[w])
                     /\ accepted' = Append(accepted, tried[w])
                     /\ remaining[w] \notin Elems(remaining')]_vars

\* the second round ended in a tie between the two remaining features and
\* took the one tried first
C4_Witness ==
    /\ g_pc = "for_i"
    /\ Len(selected) = 2
    /\ tried = << 2, 2 >>
    /\ selected[2] < remaining[1]

\* the sum over rounds i = 0..k-1 of max(n - i, 0)
RECURSIVE TrainBound(_, _)
TrainBound(n, k) ==
    IF k <= 0 THEN 0
    ELSE TrainBound(n, k - 1) + (IF n - (k - 1) > 0 THEN n - (k - 1) ELSE 0)

\* C5: select_features_greedy terminates; it trains one fresh QSVM per
\* remaining candidate per round, so at most the sum over rounds
\* i = 0..k-1 of max(n - i, 0) models for n = n_features, k =
\* self.max_features; and it sets self.selected_features to the list it
\* returns.
C5_GreedyTerminates ==
    /\ [](/\ g_pc # "idle" => trained <= TrainBound(n_features, max_features)
          /\ g_pc = "for_feature" =>
                trained = TrainBound(n_features, g_i) + (cursor - 1)
          /\ s_last.op = "select_features_greedy" =>
                s_last.trains <= TrainBound(n_features, max_features)
          /\ GreedyReturned => selected_features = s_last.value)
    /\ (g_pc # "idle") ~> (g_pc = "idle")

\* max_features exceeds n_features and every feature was selected: the
\* candidate list ran empty
C5_Witness ==
    /\ GreedyReturned
    /\ n_features = 2
    /\ max_features > n_features
    /\ Len(s_last.value) = n_features
    /\ s_last.trains = 3

(***************************************************************************)
(* QuantumFeatureSelector.fit / predict: claims C6, C7 (SpecSelector).     *)
(***************************************************************************)
\* C6 (as claimed): fit called without a selected_features argument, when no
\* feature has been selected (self.selected_features is None or empty),
\* raises ValueError('No features selected. Run select_features_greedy
\* first.') and trains no QSVM.
C6_FitWithoutFeaturesRaises ==
    (/\ s_last.op = "fit"
     /\ ~ s_last.arg
     /\ selected_features \in { NoneList, << >> }) =>
        /\ s_last.out = "ValueError: No features selected. Run select_features_greedy first."
        /\ s_last.trains = 0

\* C7 (as claimed): predict and predict_proba raise ValueError('Model not
\* trained. Call fit() first.') whenever fit has never completed
\* successfully on the selector.
C7_PredictBeforeFitRaises ==
    (s_last.op \in { "predict", "predict_proba" } /\ ~ sel_fitted) =>
        s_last.out = "ValueError: Model not trained. Call fit() first."

(***************************************************************************)
(* wait_for_job and execute_circuit: claims C8, C10 (SpecClient), C9       *)
(* (FairSpecClient).                                                       *)
(***************************************************************************)
FinalStatuses ==
    { "completed", "success", "finished", "failed", "error", "cancelled" }

\* C8: what wait_for_job returns is either the first polled response whose
\* status is one of the six final statuses, or {'status': 'timeout',
\* 'job_id': job_id}; the latter only if no polled response carried a final
\* status; with max_wait_time <= 0 it is the timeout value and nothing was
\* polled.
C8_WaitReturnsFirstFinal ==
    w_result # NoDict =>
        /\ \/ /\ w_result.src = "poll"
              /\ w_result.status \in FinalStatuses
              /\ first_final > 0
              /\ w_result.seq = first_final
           \/ /\ w_result = [status |-> "timeout", job_id |-> w_job_id,
                             seq |-> 0, src |-> "local"]
              /\ first_final = 0
        /\ max_wait_time <= 0 =>
              (w_result.status = "timeout" /\ polls = 0)

\* the second status response was the first final one and was returned
C8_Witness ==
    /\ c_caller = "wait_for_job"
    /\ w_result.src = "poll"
    /\ w_result.status = "cancelled"
    /\ w_result.seq = 2

\* ceil(a / b) for b > 0
CeilDiv(a, b) == (a + b - 1) \div b

\* C9 (as claimed): wait_for_job terminates, issues at most
\* ceil(max_wait_time / poll_interval) status requests and issues none once
\* max_wait_time has elapsed.
C9_PollsWithinCeil ==
    /\ [](/\ polls <= CeilDiv(max_wait_time, poll_interval)
          /\ ~ polled_late)
    /\ (c_pc # "idle") ~> (c_pc = "idle")

\* C9 (amended): wait_for_job terminates, issues at most
\* max(0, ceil(max_wait_time / poll_interval)) status requests and issues
\* none once max_wait_time has elapsed.
C9_PollsWithinCeilOrZero ==
    /\ [](/\ polls <= (IF max_wait_time <= 0 THEN 0
                       ELSE CeilDiv(max_wait_time, poll_interval))
          /\ ~ polled_late)
    /\ (c_pc # "idle") ~> (c_pc = "idle")

\* a wait that timed out after as many status requests as the bound allows
C9_Witness ==
    /\ c_caller = "wait_for_job"
    /\ w_result.status = "timeout"
    /\ max_wait_time = 3
    /\ poll_interval = 1
    /\ polls = 3

NonEmptyJobId(j) == j \notin { NoJobId, "" }

\* what C10 says of the polls and of the results of an execute_circuit call
ExecutePollsAndResults ==
    /\ [](c_caller = "execute_circuit" =>
            /\ polls > 0 => NonEmptyJobId(job_result.job_id)
            /\ c_pc # "idle" => NonEmptyJobId(job_result.job_id)
            /\ (c_last.out = "returned"
                    /\ ~ NonEmptyJobId(job_result.job_id)) =>
                  (c_last.value = job_result /\ job_result.src = "submit"
                     /\ polls = 0)
            /\ (c_last.out = "returned"
                    /\ NonEmptyJobId(job_result.job_id)) =>
                  (c_last.value = w_result /\ w_result # NoDict)
            /\ c_last.out = "RuntimeError" =>
                  (polls = 0 /\ c_pc = "idle" /\ c_last.value = NoDict))
    /\ [][(polls' > polls /\ c_caller = "execute_circuit") =>
            (submits = 1 /\ submits' = 1)]_vars
    /\ [][submits' # submits => polls' = 0]_vars

\* C10 (as claimed): execute_circuit submits exactly one job per call,
\* strictly before any status poll; it polls only when the submit response
\* carries a non-empty job_id and otherwise returns the submit response
\* unchanged; when the submit request fails, RuntimeError is raised, no
\* status request is issued and no result is returned.
C10_ExactlyOneSubmit ==
    /\ [](c_caller = "execute_circuit" => submits = 1)
    /\ ExecutePollsAndResults

\* C10 (amended): execute_circuit submits at most one job per call, none
\* only when converting the circuit raises (and then it polls nothing and
\* returns no result); the rest as claimed.
C10_AtMostOneSubmit ==
    /\ [](c_caller = "execute_circuit" =>
            /\ submits \in { 0, 1 }
            /\ submits = 0 =>
                  /\ c_last.out = "raised: circuit.qasm()"
                  /\ polls = 0
                  /\ c_pc = "idle"
                  /\ c_last.value = NoDict)
    /\ ExecutePollsAndResults

\* execute_circuit submitted, polled twice and returned the second response
C10_Witness ==
    /\ c_caller = "execute_circuit"
    /\ c_last.out = "returned"
    /\ submits = 1
    /\ polls = 2
    /\ c_last.value.src = "poll"

(***************************************************************************)
(* The global client and the configuration: claims C11, C12 (SpecConfig).  *)
(***************************************************************************)
GetLast == k_last.op = "get_qcentroid_client"

\* C11: over any sequence of get_qcentroid_client calls at most one
\* QCentroidClient is ever built; every call that returns, returns that
\* first instance, which the global holds; a call that found the global set
\* builds nothing; a call whose construction raised leaves the global None,
\* and a call that finds it None attempts the construction.
C11_OneGlobalClient ==
    /\ global_built <= 1
    /\ qcentroid_client \in { 0, 1 }
    /\ GetLast /\ k_last.out = "returned" =>
          /\ k_last.instance = 1
          /\ qcentroid_client = 1
    /\ GetLast /\ k_last.before # 0 =>
          /\ k_last.constructs = 0
          /\ k_last.out = "returned"
          /\ k_last.instance = k_last.before
    /\ GetLast /\ k_last.out # "returned" =>
          /\ k_last.before = 0
          /\ qcentroid_client = 0
          /\ global_built = 0
    /\ GetLast /\ k_last.before = 0 => k_last.constructs = 1

\* a call returned the instance an earlier call had built
C11_Witness ==
    /\ GetLast
    /\ k_last.out = "returned"
    /\ k_last.before = 1
    /\ k_last.constructs = 0
    /\ k_last.instance = 1

KeyMissing == k_last.key \in { NoEnv, "" }

\* the environment of the last call made int() raise
IntsBad ==
    \/ k_last.qubits \notin { NoEnv } \cup Numerals
    \/ k_last.shots \notin { NoEnv } \cup Numerals

ValidateIffKey ==
    k_last.op = "validate" =>
        /\ k_last.out = KeyError <=> KeyMissing
        /\ ~KeyMissing => k_last.out = "returned True"

Constructors == { "QCentroidChallengeAPI", "QCentroidClient" }

\* C12, as stated: validate raises ValueError exactly when the API key is
\* unset or empty and otherwise returns True, whatever the workspace id;
\* QCentroidChallengeAPI(...) and QCentroidClient(...) fail if and only if
\* the API key is missing.
C12_FailsIffKeyMissing ==
    /\ ValidateIffKey
    /\ k_last.op \in Constructors =>
          (k_last.out # "returned" <=> KeyMissing)

\* C12, amended: a constructor that is given no configuration builds one,
\* and then it also fails when QCENTROID_MAX_QUBITS or QCENTROID_SHOTS is
\* not an integer.
C12_FailsIffKeyMissingOrBadInt ==
    /\ ValidateIffKey
    /\ k_last.op \in Constructors =>
          /\ k_last.out # "returned" <=>
                (KeyMissing \/ (~k_last.given /\ IntsBad))
          /\ k_last.given => (k_last.out # "returned" <=> KeyMissing)

\* a constructor was given a configuration with a key and no workspace id
\* and returned, in an environment where building one would have failed
C12_Witness ==
    /\ k_last.op \in Constructors
    /\ k_last.given
    /\ k_last.ws = NoEnv
    /\ ~KeyMissing
    /\ IntsBad
    /\ k_last.out = "returned"

(***************************************************************************)
(* The solver pipeline and its entry point: claims C13, C14, C15           *)
(* (SpecSolver) and C17 (SpecSolver).                                      *)
(***************************************************************************)
Begun(step) == \E i \in 1..Len(m_steps) : m_steps[i] = step

\* C13: in every run that reaches SVM training the kernel matrix was
\* obtained by submitting at least one job to the QCentroid API before the
\* SVM was fitted, and no run trains on a locally simulated kernel after
\* the backend verification has failed.
C13_TrainsOnSubmittedJobs ==
    quantum_model = "trained" =>
        /\ jobs_submitted >= 1
        /\ ~(quantum_available = "False" /\ kernel_backend = "AerSimulator")

Loaded == Begun("load") /\ data # NoArrays

AllFrom(src) == \A i \in 1..4 : data[i].src = src

\* C14: load_dataset never raises FileNotFoundError, and the four arrays it
\* returns are all from disk, which happens only when all four files
\* exist, or all from the sample dataset of 500 training rows, 100 test
\* rows and 8 features.
C14_AllDiskOrAllSample ==
    /\ main_out # "FileNotFoundError"
    /\ Loaded =>
          /\ Len(data) = 4
          /\ \/ AllFrom("disk") /\ files = FileSet
             \/ /\ AllFrom("sample")
                /\ data[1].rows = 500 /\ data[1].cols = 8
                /\ data[2].rows = 500
                /\ data[3].rows = 100 /\ data[3].cols = 8
                /\ data[4].rows = 100
    /\ Loaded /\ files # FileSet => AllFrom("sample")

\* some but not all of the files exist, and the sample dataset was returned
C14_Witness ==
    /\ Loaded
    /\ files # {}
    /\ files # FileSet
    /\ FileNames[1] \in files
    /\ AllFrom("sample")

Exited == e_pc = "exited"

RaisedByMain == main_out \in ExceptionKinds \cup { "KeyboardInterrupt" }

ExitZeroIffReturned ==
    Exited =>
        /\ exit_status \in { 0, 1 }
        /\ exit_status = 0 <=> main_out = "returned"
        /\ RaisedByMain => exit_status = 1

\* C15, as stated: main.py exits with status 0 if and only if the solver's
\* main returned normally, with status 1 when it raised an Exception or
\* KeyboardInterrupt, and no exception of those kinds escapes the entry
\* point.
C15_NothingEscapes ==
    /\ ExitZeroIffReturned
    /\ escaped \notin ExceptionKinds \cup { "KeyboardInterrupt" }

\* C15, amended: no exception of those kinds raised by the solver's main
\* escapes; one raised by the import of quantum_solver, which precedes the
\* try, does, and the process then ends with status 1 without main having
\* been called.
C15_OnlyImportEscapes ==
    /\ ExitZeroIffReturned
    /\ Exited /\ main_out # "none" => escaped = "none"
    /\ escaped # "none" =>
          /\ Exited
          /\ main_out = "none"
          /\ m_steps = << >>
          /\ exit_status = 1

\* main was interrupted and the entry point exited with status 1
C15_Witness ==
    /\ Exited
    /\ main_out = "KeyboardInterrupt"
    /\ exit_status = 1
    /\ escaped = "none"
    /\ Begun("train")

StepOrder == << "load", "verify", "select", "sample", "train", "evaluate",
                "save" >>

InStepOrder ==
    /\ Len(m_steps) <= Len(StepOrder)
    /\ \A i \in 1..Len(m_steps) : m_steps[i] = StepOrder[i]

SavedAfterEvaluation ==
    /\ written # << >> =>
          /\ Begun("save")
          /\ quantum_model = "trained"
          /\ results = "computed"
    /\ quantum_model # "trained" => written = << >>
    /\ results # "computed" => written = << >>
    /\ Begun("save") => quantum_model = "trained" /\ results = "computed"

\* the verification step, whatever it found, hands over to select_features
VerifyNeverStops ==
    m_pc = "verify" /\ Begun("verify")' =>
        /\ m_pc' = "select"
        /\ main_out' = "running"
        /\ quantum_available' \in { "True", "False" }

\* C17: main begins its steps in the order load, verify, select, sample,
\* train, evaluate, save; the verification never raises and its result
\* never changes which step comes next; result files are written only
\* after training and evaluation have both completed, so a run whose
\* training failed has written none.
C17_StepsInOrder ==
    [](InStepOrder /\ SavedAfterEvaluation) /\ [][VerifyNeverStops]_vars

\* the verification failed and the run still saved all its results
C17_Witness ==
    /\ quantum_available = "False"
    /\ main_out = "returned"
    /\ written = ResultFiles
    /\ m_steps = StepOrder

(***************************************************************************)
(* The quick test script: claim C16 (SpecTest).                            *)
(***************************************************************************)
CheckOrder == << 1, 2, 3, 4, 5, 6 >>

RanInOrder ==
    /\ Len(t_ran) <= Len(CheckOrder)
    /\ \A i \in 1..Len(t_ran) : t_ran[i] = CheckOrder[i]

\* the core checks that have run and did not pass
FailedCore == { c \in 1..5 : (\E i \in 1..Len(t_ran) : t_ran[i] = c)
                             /\ c \notin t_passed }

TestEnded == t_pc = 8

\* C16: the five core checks run in order; the script exits with status 1
\* at the first core check that fails, without running a later check;
\* "ALL CORE TESTS PASSED" is printed only if all five passed; check 5
\* builds a QSVM that stores n_features = 4 and C = 1.0 as given; and the
\* optional check, pass or fail, leaves the outcome unchanged: once the
\* five core checks have passed the script prints the summary and exits
\* with status 0.
C16_CoreChecksDecide ==
    /\ RanInOrder
    /\ \A c \in 1..5 :
          c \in t_passed => \A b \in 1..c : b \in t_passed
    /\ \A c \in FailedCore :
          /\ TestEnded
          /\ t_exit = 1
          /\ t_ran[Len(t_ran)] = c
          /\ ~t_printed
    /\ t_printed => (1..5) \subseteq t_passed
    /\ 5 \in t_passed => t_qsvm.n_features = 4 /\ t_qsvm.C = 1
    /\ TestEnded =>
          /\ t_exit \in { 0, 1 }
          /\ t_exit = 0 <=> (1..5) \subseteq t_passed
          /\ t_exit = 0 <=> t_printed
          /\ t_exit = 1 <=> FailedCore # {}

\* the optional check failed, and the summary was still printed
C16_Witness ==
    /\ TestEnded
    /\ t_ran = CheckOrder
    /\ 6 \notin t_passed
    /\ t_printed
    /\ t_exit = 0

==========================================================================
